---- MODULE Spec2Model ----
(***************************************************************************)
(* Model of the AASIST inference server: the fixed-length framer `pad`,    *)
(* AASISTPredictor.predict (src/predictor.py) and the batch upload handler *)
(* predict_audio_batch running on uvicorn's single event loop (src/app.py).*)
(*                                                                         *)
(* Strings of the source that are not ASCII are written in ASCII:          *)
(*   "真实" -> "BONAFIDE", "伪造" -> "SPOOF", "错误" -> "ERROR",            *)
(*   "处理失败: ..." -> "ProcessingFailed: ...".                            *)
(* Scores and the threshold are in millionths (1.510585 -> 1510585).       *)
(***************************************************************************)
EXTENDS Integers, Sequences, FiniteSets, TLC

VARIABLES
    predictor,        \* the AASISTPredictor object built at import time
    files,            \* files[r]: the uploads of request r, in upload order
    pc,               \* pc[r]: position of request r's handler coroutine
    loop,             \* the request whose coroutine the event loop is running, 0 when idle
    idx,              \* idx[r]: 1-based position of `file` in files[r]
    results,          \* results[r]: the handler's local list `results`
    file_ext,         \* locals of the loop body
    temp_input_path,
    temp_wav_path,
    target_file_path,
    temp_file,        \* name of the NamedTemporaryFile open in the with block
    pred_result,
    exc,              \* exc[r]: the exception being propagated, "None" if none
    fs,               \* the paths that exist on the filesystem
    hist,             \* hist[r][k]: the stages executed for file k, in order
    failedAt,         \* failedAt[r][k]: the stage of file k that raised, "none" if none
    rmFailed,         \* rmFailed[r][k]: os.remove raised during file k's cleanup
    x_in,             \* argument x of a direct call of pad
    max_len_in,       \* argument max_len of a direct call of pad
    pad_out           \* outcome of that call, NotCalled before it

handlerVars == <<files, pc, loop, idx, results, file_ext, temp_input_path,
                 temp_wav_path, target_file_path, temp_file, pred_result, exc, fs,
                 hist, failedAt, rmFailed>>
padVars == <<x_in, max_len_in, pad_out>>
vars == <<predictor, handlerVars, padVars>>

----------------------------------------------------------------------------
(* Bounds of the model *)

MaxLen == 3          \* longest waveform given to pad
MaxTarget == 4       \* largest target length given to pad
NumSamples == 2      \* distinct sample values
NumReqs == 2         \* requests in flight at once
MaxFiles == 2        \* uploads per request
MaxUploads == 2      \* uploads of all the requests in flight
cut == 3             \* self.cut (64600 in the source), scaled to the waveforms above

(* Program constants *)

THRESHOLD == 1510585
target_sr == 16000

\* Python's None: in a slot holding strings, and in a slot holding records
None == "None"
NoneRec == [none |-> TRUE]
NotCalled == [raised |-> "NotCalled"]

Samples == 1..NumSamples
SeqsUpTo(S, n) == UNION {[1..m -> S] : m \in 0..n}
Waveforms == SeqsUpTo(Samples, MaxLen)

\* the waveforms librosa.load yields in the handler: one of each length, the
\* empty one included (the handler never looks at the samples)
Recordings == {[i \in 1..n |-> 1] : n \in 0..MaxLen}

----------------------------------------------------------------------------
(* src/predictor.py: pad *)

\* the outcome of a call: the value returned, or the exception raised
Returned(v) == [raised |-> None, value |-> v]
Raised(e) == [raised |-> e]

\* np.tile(x, (1, n))[0]: n copies of x, one after the other
RECURSIVE tile(_, _)
tile(x, n) == IF n <= 0 THEN <<>> ELSE x \o tile(x, n - 1)

\* s[:n] for n >= 0
Slice(s, n) == SubSeq(s, 1, IF n < Len(s) THEN n ELSE Len(s))

\* the repeat count without the extra copy
num_repeats_floor(max_len, x_len) == max_len \div x_len

\* int(max_len / x_len) + 1, for x_len # 0
num_repeats(max_len, x_len) == (max_len \div x_len) + 1

pad(x, max_len) ==
    LET x_len == Len(x) IN
    IF x_len >= max_len THEN Returned(Slice(x, max_len))
    ELSE IF x_len = 0 THEN Raised("ZeroDivisionError")
    ELSE Returned(Slice(tile(x, num_repeats(max_len, x_len)), max_len))

----------------------------------------------------------------------------
(* A direct call of pad on an arbitrary waveform and target length *)

InitHandlerIdle ==
    /\ predictor = [threshold |-> THRESHOLD, cut |-> cut, target_sr |-> target_sr]
    /\ files = <<>> /\ pc = <<>> /\ loop = 0 /\ idx = <<>> /\ results = <<>>
    /\ file_ext = <<>> /\ temp_input_path = <<>> /\ temp_wav_path = <<>>
    /\ target_file_path = <<>> /\ temp_file = <<>> /\ pred_result = <<>> /\ exc = <<>>
    /\ fs = {} /\ hist = <<>> /\ failedAt = <<>> /\ rmFailed = <<>>

InitPad ==
    /\ InitHandlerIdle
    /\ x_in \in Waveforms
    /\ max_len_in \in 1..MaxTarget
    /\ pad_out = NotCalled

PadCall ==
    /\ pad_out = NotCalled
    /\ pad_out' = pad(x_in, max_len_in)
    /\ UNCHANGED <<predictor, handlerVars, x_in, max_len_in>>

NextPad == PadCall

SpecPad == InitPad /\ [][NextPad]_vars

----------------------------------------------------------------------------
(* src/predictor.py: AASISTPredictor.predict *)

Scores == {THRESHOLD - 1, THRESHOLD, THRESHOLD + 1}

DecideAtLeast(score, threshold) == IF score >= threshold THEN "BONAFIDE" ELSE "SPOOF"

\* if score > self.threshold: "真实" else: "伪造"
Decide(score, threshold) == IF score > threshold THEN "BONAFIDE" ELSE "SPOOF"

\* the dict returned after a successful forward pass
Prediction(score, threshold) ==
    [label |-> Decide(score, threshold), score |-> score, threshold |-> threshold]

\* the dict returned by predict's except clause
PredictError(e) == [error |-> e]

\* d.get(k, default)
Get(d, k, default) == IF k \in DOMAIN d THEN d[k] ELSE default

----------------------------------------------------------------------------
(* src/app.py: predict_audio_batch on the event loop *)

Reqs == DOMAIN files

\* uploaded filenames, as os.path.splitext splits them
Filenames == { [root |-> "a", ext |-> ".WAV"],
               [root |-> "b", ext |-> ".mp3"],
               [root |-> "c", ext |-> ""] }

Batches == UNION {[1..n -> Filenames] : n \in 1..MaxFiles}

\* str.lower() on the extensions above
lower(s) == IF s = ".WAV" THEN ".wav" ELSE s

FileExt(filename) ==
    LET e == lower(filename.ext) IN IF e = "" THEN ".temp" ELSE e

\* tempfile.NamedTemporaryFile picks a name no existing file has
TempName(r, k, suffix) == [req |-> r, k |-> k, suffix |-> suffix, converted |-> FALSE]

\* temp_input_path + ".converted.wav"
ConvertedName(p) == [p EXCEPT !.converted = TRUE]

SuspendsInPredict(p) == p \in {"await_read", "forward"}

\* the positions at which the coroutine gives the event loop back: `await file.read()`
Suspends(p) == p = "await_read"

Finished(p) == p \in {"done", "aborted"}

\* the coroutine of r may take its next step
Runs(r) == \/ loop = r
           \/ loop = 0 /\ (pc[r] = "new" \/ Suspends(pc[r]))

LoopAfter(r, p) == IF Suspends(p) \/ Finished(p) THEN 0 ELSE r

\* the exceptions the loop body raises, all subclasses of Exception
Exceptions == {"ReadError", "OSError", "CouldntDecodeError", "ExportError"}

CatchesDecodeOnly(e) == e = "CouldntDecodeError"

\* `except Exception as e` of the loop body: every exception raised here is one
ExceptCatches(e) == e \in Exceptions

CleanupPropagates == FALSE

\* the bare `except: pass` around the removals
CleanupSwallows == TRUE

\* the entry appended after predictor.predict returned
PredictEntry(filename, d) ==
    [filename |-> filename,
     result_label |-> Get(d, "label", "ERROR"),
     score |-> Get(d, "score", 0),
     is_bonafide |-> (Get(d, "label", None) = "BONAFIDE"),   \* d.get("label") == "真实"
     error |-> Get(d, "error", None)]

\* f"处理失败: {str(e)} (...)"
ProcessingFailed(e) ==
    CASE e = "ReadError" -> "ProcessingFailed: ReadError"
      [] e = "OSError" -> "ProcessingFailed: OSError"
      [] e = "CouldntDecodeError" -> "ProcessingFailed: CouldntDecodeError"
      [] e = "ExportError" -> "ProcessingFailed: ExportError"

\* the entry appended by the except clause
ExceptEntry(filename, e) ==
    [filename |-> filename,
     result_label |-> "ERROR",
     score |-> 0,
     is_bonafide |-> FALSE,
     error |-> ProcessingFailed(e)]

ExceptDrops(res, filename, e) == res

ExceptAppend(res, filename, e) == Append(res, ExceptEntry(filename, e))

AfterEntrySkipsCleanup(r) == IF idx[r] < Len(files[r]) THEN "start" ELSE "finally"

\* after an entry is appended control reaches the finally clause
AfterEntry(r) == "finally"

AfterLoadIgnoresFailure(raised) == "forward"

\* inside predict, an exception leaves the try block for its except clause
AfterLoad(raised) == IF raised THEN "append" ELSE "forward"

Log(r, stage) == [hist EXCEPT ![r][idx[r]] = Append(@, stage)]
Log2(r, s1, s2) == [hist EXCEPT ![r][idx[r]] = @ \o <<s1, s2>>]
Fail(r, stage) == [failedAt EXCEPT ![r][idx[r]] = stage]

InitPadIdle == x_in = <<>> /\ max_len_in = 1 /\ pad_out = NotCalled

InitRequests(batches) ==
    /\ predictor = [threshold |-> THRESHOLD, cut |-> cut, target_sr |-> target_sr]
    /\ files \in batches
    /\ pc = [r \in DOMAIN files |-> "new"]
    /\ loop = 0
    /\ idx = [r \in DOMAIN files |-> 0]
    /\ results = [r \in DOMAIN files |-> <<>>]
    /\ file_ext = [r \in DOMAIN files |-> None]
    /\ temp_input_path = [r \in DOMAIN files |-> NoneRec]
    /\ temp_wav_path = [r \in DOMAIN files |-> NoneRec]
    /\ target_file_path = [r \in DOMAIN files |-> NoneRec]
    /\ temp_file = [r \in DOMAIN files |-> NoneRec]
    /\ pred_result = [r \in DOMAIN files |-> NoneRec]
    /\ exc = [r \in DOMAIN files |-> None]
    /\ fs = {}
    /\ hist = [r \in DOMAIN files |-> <<>>]
    /\ failedAt = [r \in DOMAIN files |-> <<>>]
    /\ rmFailed = [r \in DOMAIN files |-> <<>>]
    /\ InitPadIdle

\* one request in flight
Init == InitRequests([1..1 -> Batches])

\* the uploads of concurrent requests: one used as it is, one transcoded
LoopFilenames == { [root |-> "a", ext |-> ".WAV"], [root |-> "b", ext |-> ".mp3"] }

LoopBatches == UNION {[1..n -> LoopFilenames] : n \in 1..MaxFiles}

RECURSIVE Uploads(_, _)
Uploads(f, n) == IF n = 0 THEN 0 ELSE Len(f[n]) + Uploads(f, n - 1)

\* NumReqs requests in flight at once, with at most MaxUploads uploads in all
InitLoop ==
    InitRequests({f \in [1..NumReqs -> LoopBatches] : Uploads(f, NumReqs) <= MaxUploads})

\* lines 49-52: the framework calls the handler; results = []
Call(r) ==
    /\ pc[r] = "new" /\ Runs(r)
    /\ results' = [results EXCEPT ![r] = <<>>]
    /\ idx' = [idx EXCEPT ![r] = 1]
    /\ pc' = [pc EXCEPT ![r] = "start"]
    /\ loop' = LoopAfter(r, "start")
    /\ UNCHANGED <<predictor, files, file_ext, temp_input_path, temp_wav_path,
                   target_file_path, temp_file, pred_result, exc, fs, hist,
                   failedAt, rmFailed, padVars>>

\* lines 53-63: reset the paths, compute file_ext, create the temporary file and
\* reach `await file.read()`
Begin(r) ==
    /\ pc[r] = "start" /\ Runs(r)
    /\ LET ext == FileExt(files[r][idx[r]])
           name == TempName(r, idx[r], ext) IN
        /\ temp_input_path' = [temp_input_path EXCEPT ![r] = NoneRec]
        /\ temp_wav_path' = [temp_wav_path EXCEPT ![r] = NoneRec]
        /\ file_ext' = [file_ext EXCEPT ![r] = ext]
        /\ temp_file' = [temp_file EXCEPT ![r] = name]
        /\ fs' = fs \cup {name}
    /\ hist' = [hist EXCEPT ![r] = Append(@, <<"tempfile">>)]
    /\ failedAt' = [failedAt EXCEPT ![r] = Append(@, "none")]
    /\ rmFailed' = [rmFailed EXCEPT ![r] = Append(@, FALSE)]
    /\ pc' = [pc EXCEPT ![r] = "await_read"]
    /\ loop' = LoopAfter(r, "await_read")
    /\ UNCHANGED <<predictor, files, idx, results, target_file_path, pred_result,
                   exc, padVars>>

\* lines 63-65: the read completes or raises; write the content; leave the with
\* block, which closes the file and keeps it
Resume(r) ==
    /\ pc[r] = "await_read" /\ Runs(r)
    /\ \E outcome \in {"ok", "read", "write"} :
        /\ hist' = IF outcome = "read" THEN Log(r, "read") ELSE Log2(r, "read", "write")
        /\ IF outcome = "ok"
           THEN /\ temp_input_path' = [temp_input_path EXCEPT ![r] = temp_file[r]]
                /\ pc' = [pc EXCEPT ![r] = "convert"]
                /\ loop' = LoopAfter(r, "convert")
                /\ UNCHANGED <<exc, failedAt>>
           ELSE /\ exc' = [exc EXCEPT ![r] = IF outcome = "read" THEN "ReadError" ELSE "OSError"]
                /\ failedAt' = Fail(r, outcome)
                /\ pc' = [pc EXCEPT ![r] = "except"]
                /\ loop' = LoopAfter(r, "except")
                /\ UNCHANGED temp_input_path
    /\ temp_file' = [temp_file EXCEPT ![r] = NoneRec]
    /\ UNCHANGED <<predictor, files, idx, results, file_ext, temp_wav_path,
                   target_file_path, pred_result, fs, rmFailed, padVars>>

\* lines 69-81: a .wav upload is used as it is; any other is loaded by pydub and
\* exported as wav next to it
Convert(r) ==
    /\ pc[r] = "convert" /\ Runs(r)
    /\ IF file_ext[r] # ".wav"
       THEN LET wav == ConvertedName(temp_input_path[r]) IN
            /\ temp_wav_path' = [temp_wav_path EXCEPT ![r] = wav]
            /\ \E outcome \in {"ok", "from_file", "export"}, written \in BOOLEAN :
                /\ outcome = "ok" => written
                /\ outcome = "from_file" => ~written
                /\ (outcome = "ok" \/ outcome = "export") => temp_input_path[r] \in fs
                /\ fs' = IF written THEN fs \cup {wav} ELSE fs
                /\ hist' = IF outcome = "from_file" THEN Log(r, "from_file")
                           ELSE Log2(r, "from_file", "export")
                /\ IF outcome = "ok"
                   THEN /\ target_file_path' = [target_file_path EXCEPT ![r] = wav]
                        /\ pc' = [pc EXCEPT ![r] = "predict"]
                        /\ loop' = LoopAfter(r, "predict")
                        /\ UNCHANGED <<exc, failedAt>>
                   ELSE /\ target_file_path' =
                               [target_file_path EXCEPT ![r] = temp_input_path[r]]
                        /\ exc' = [exc EXCEPT ![r] = IF outcome = "from_file"
                                                     THEN "CouldntDecodeError"
                                                     ELSE "ExportError"]
                        /\ failedAt' = Fail(r, outcome)
                        /\ pc' = [pc EXCEPT ![r] = "except"]
                        /\ loop' = LoopAfter(r, "except")
       ELSE /\ target_file_path' = [target_file_path EXCEPT ![r] = temp_input_path[r]]
            /\ pc' = [pc EXCEPT ![r] = "predict"]
            /\ loop' = LoopAfter(r, "predict")
            /\ UNCHANGED <<temp_wav_path, exc, failedAt, fs, hist>>
    /\ UNCHANGED <<predictor, files, idx, results, file_ext, temp_input_path,
                   temp_file, pred_result, rmFailed, padVars>>

\* app.py line 85 and predictor.py lines 68-76: predict is entered, librosa.load
\* yields a waveform or raises, and the waveform is framed to self.cut samples
PredictLoad(r) ==
    /\ pc[r] = "predict" /\ Runs(r)
    /\ \/ /\ hist' = Log(r, "load")
          /\ failedAt' = Fail(r, "load")
          /\ pred_result' = [pred_result EXCEPT ![r] = PredictError("LoadError")]
          /\ pc' = [pc EXCEPT ![r] = AfterLoad(TRUE)]
          /\ loop' = LoopAfter(r, AfterLoad(TRUE))
       \/ \E X \in Recordings :
            LET X_pad == pad(X, predictor.cut) IN
            /\ target_file_path[r] \in fs
            /\ hist' = Log2(r, "load", "pad")
            /\ IF X_pad.raised # None
               THEN /\ failedAt' = Fail(r, "pad")
                    /\ pred_result' = [pred_result EXCEPT ![r] = PredictError(X_pad.raised)]
                    /\ pc' = [pc EXCEPT ![r] = AfterLoad(TRUE)]
                    /\ loop' = LoopAfter(r, AfterLoad(TRUE))
               ELSE /\ pred_result' = [pred_result EXCEPT ![r] = NoneRec]
                    /\ pc' = [pc EXCEPT ![r] = AfterLoad(FALSE)]
                    /\ loop' = LoopAfter(r, AfterLoad(FALSE))
                    /\ UNCHANGED failedAt
    /\ UNCHANGED <<predictor, files, idx, results, file_ext, temp_input_path,
                   temp_wav_path, target_file_path, temp_file, exc, fs, rmFailed,
                   padVars>>

\* predictor.py lines 79-108: the forward pass yields a score or raises; the
\* score is compared with self.threshold and the dict is returned
PredictForward(r) ==
    /\ pc[r] = "forward" /\ Runs(r)
    /\ hist' = Log(r, "forward")
    /\ \/ /\ failedAt' = Fail(r, "forward")
          /\ pred_result' = [pred_result EXCEPT ![r] = PredictError("RuntimeError")]
       \/ \E score \in Scores :
          /\ pred_result' = [pred_result EXCEPT ![r] =
                                Prediction(score, predictor.threshold)]
          /\ UNCHANGED failedAt
    /\ pc' = [pc EXCEPT ![r] = "append"]
    /\ loop' = LoopAfter(r, "append")
    /\ UNCHANGED <<predictor, files, idx, results, file_ext, temp_input_path,
                   temp_wav_path, target_file_path, temp_file, exc, fs, rmFailed,
                   padVars>>

\* lines 87-93: append the entry built from the dict predict returned
AppendResult(r) ==
    /\ pc[r] = "append" /\ Runs(r)
    /\ results' = [results EXCEPT ![r] =
                      Append(@, PredictEntry(files[r][idx[r]], pred_result[r]))]
    /\ hist' = Log(r, "append")
    /\ pc' = [pc EXCEPT ![r] = AfterEntry(r)]
    /\ loop' = LoopAfter(r, AfterEntry(r))
    /\ idx' = [idx EXCEPT ![r] = IF AfterEntry(r) = "start" THEN @ + 1 ELSE @]
    /\ UNCHANGED <<predictor, files, file_ext, temp_input_path, temp_wav_path,
                   target_file_path, temp_file, pred_result, exc, fs, failedAt,
                   rmFailed, padVars>>

\* lines 95-103: an exception of the loop body is caught and an error entry appended
Except(r) ==
    /\ pc[r] = "except" /\ Runs(r)
    /\ IF ExceptCatches(exc[r])
       THEN /\ results' = [results EXCEPT ![r] =
                              ExceptAppend(@, files[r][idx[r]], exc[r])]
            /\ exc' = [exc EXCEPT ![r] = None]
            /\ hist' = Log(r, "except")
       ELSE UNCHANGED <<results, exc, hist>>
    /\ pc' = [pc EXCEPT ![r] = "finally"]
    /\ loop' = LoopAfter(r, "finally")
    /\ UNCHANGED <<predictor, files, idx, file_ext, temp_input_path, temp_wav_path,
                   target_file_path, temp_file, pred_result, fs, failedAt,
                   rmFailed, padVars>>

\* the outcome of the try block of lines 107-111: the paths left on the
\* filesystem and whether an os.remove raised
Removals(r, inRaises, wavRaises) ==
    LET hasIn == temp_input_path[r] # NoneRec /\ temp_input_path[r] \in fs
        hasWav == temp_wav_path[r] # NoneRec /\ temp_wav_path[r] \in fs
        fs1 == IF hasIn /\ ~inRaises THEN fs \ {temp_input_path[r]} ELSE fs
        raised1 == hasIn /\ inRaises
        fs2 == IF ~raised1 /\ hasWav /\ ~wavRaises THEN fs1 \ {temp_wav_path[r]} ELSE fs1
        raised2 == ~raised1 /\ hasWav /\ wavRaises
    IN [fs |-> fs2, raised |-> raised1 \/ raised2]

\* lines 105-113, and the loop's next iteration or the end of the loop
Finally(r) ==
    /\ pc[r] = "finally" /\ Runs(r)
    /\ \E inRaises \in BOOLEAN, wavRaises \in BOOLEAN :
        LET out == Removals(r, inRaises, wavRaises)
            escapes == (out.raised /\ ~CleanupSwallows) \/ exc[r] # None
            next == IF escapes THEN "aborted"
                    ELSE IF idx[r] < Len(files[r]) THEN "start" ELSE "return"
        IN
        /\ fs' = out.fs
        /\ rmFailed' = [rmFailed EXCEPT ![r][idx[r]] = out.raised]
        /\ exc' = [exc EXCEPT ![r] = IF out.raised /\ ~CleanupSwallows THEN "OSError" ELSE @]
        /\ pc' = [pc EXCEPT ![r] = next]
        /\ loop' = LoopAfter(r, next)
        /\ idx' = [idx EXCEPT ![r] = IF next = "start" THEN @ + 1 ELSE @]
    /\ hist' = Log(r, "cleanup")
    /\ UNCHANGED <<predictor, files, results, file_ext, temp_input_path,
                   temp_wav_path, target_file_path, temp_file, pred_result,
                   failedAt, padVars>>

\* line 115: return results
Return(r) ==
    /\ pc[r] = "return" /\ Runs(r)
    /\ pc' = [pc EXCEPT ![r] = "done"]
    /\ loop' = LoopAfter(r, "done")
    /\ UNCHANGED <<predictor, files, idx, results, file_ext, temp_input_path,
                   temp_wav_path, target_file_path, temp_file, pred_result, exc,
                   fs, hist, failedAt, rmFailed, padVars>>

Next ==
    \/ \E r \in Reqs : Call(r)
    \/ \E r \in Reqs : Begin(r)
    \/ \E r \in Reqs : Resume(r)
    \/ \E r \in Reqs : Convert(r)
    \/ \E r \in Reqs : PredictLoad(r)
    \/ \E r \in Reqs : PredictForward(r)
    \/ \E r \in Reqs : AppendResult(r)
    \/ \E r \in Reqs : Except(r)
    \/ \E r \in Reqs : Finally(r)
    \/ \E r \in Reqs : Return(r)

Spec == Init /\ [][Next]_vars

SpecLoop == InitLoop /\ [][Next]_vars

----------------------------------------------------------------------------
(* Helpers of the properties *)

Last(s) == s[Len(s)]

Has(h, stage) == \E i \in 1..Len(h) : h[i] = stage

\* position of a stage in the pipeline
Rank(stage) ==
    CASE stage = "tempfile" -> 1
      [] stage = "read" -> 2
      [] stage = "write" -> 3
      [] stage = "from_file" -> 4
      [] stage = "export" -> 5
      [] stage = "load" -> 6
      [] stage = "pad" -> 7
      [] stage = "forward" -> 8
      [] stage = "append" -> 9
      [] stage = "except" -> 9
      [] stage = "cleanup" -> 10

\* file k of request r has been started and its cleanup has not run yet
InFlight(r, k) == Last(hist[r][k]) # "cleanup"

\* the temporary files made for request r that still exist
Leftover(r) == {p \in fs : p.req = r}

----------------------------------------------------------------------------
\* C1: predict_audio_batch returns exactly one entry per uploaded file, in
\* upload order, whatever the outcome of each file: while it runs, the entries
\* appended so far carry the filenames of the first files, and a file has an
\* entry as soon as its cleanup has run; it ends by returning.
C1_OneEntryPerFileInOrder ==
    \A r \in Reqs :
        /\ pc[r] # "aborted"
        /\ Len(results[r]) <= Len(files[r])
        /\ \A k \in 1..Len(results[r]) : results[r][k].filename = files[r][k]
        /\ \A k \in 1..Len(hist[r]) : ~InFlight(r, k) => Len(results[r]) >= k
        /\ pc[r] \in {"return", "done"} => Len(results[r]) = Len(files[r])

C1_Witness ==
    \E r \in Reqs :
        /\ pc[r] = "done"
        /\ Len(files[r]) = 2
        /\ failedAt[r][1] = "from_file"
        /\ failedAt[r][2] = "none"
        /\ files[r][1] # files[r][2]

\* C2: a failure of one file at any stage does not stop the loop: every file
\* of the batch is still started and, unless it fails itself, goes through
\* predict; the entry of a file has an error, and is_bonafide false, exactly
\* when that file itself failed, and is a plain prediction otherwise.
C2_FailureIsolated ==
    \A r \in Reqs :
        /\ Finished(pc[r]) =>
              /\ Len(hist[r]) = Len(files[r])
              /\ Len(results[r]) = Len(files[r])
              /\ \A k \in 1..Len(files[r]) :
                    failedAt[r][k] \in {"none", "load", "pad", "forward"} =>
                        Has(hist[r][k], "load")
        /\ \A k \in 1..Len(results[r]) :
              LET e == results[r][k] IN
              IF failedAt[r][k] # "none"
              THEN e.error # None /\ e.is_bonafide = FALSE
              ELSE /\ e.error = None
                   /\ e.result_label \in {"BONAFIDE", "SPOOF"}
                   /\ e.score \in Scores

C2_Witness ==
    \E r \in Reqs :
        /\ pc[r] = "done"
        /\ Len(files[r]) = 2
        /\ failedAt[r][1] = "read"
        /\ results[r][1].error # None
        /\ failedAt[r][2] = "none"
        /\ results[r][2].is_bonafide

\* C3: when predict_audio_batch returns, no temporary file made for one of its
\* uploads exists any more.
C3_NoTempFileLeft ==
    \A r \in Reqs : pc[r] = "done" => Leftover(r) = {}

\* C6: an entry made from a score is BONAFIDE exactly when the score is above
\* the threshold set at startup; a score equal to the threshold gives SPOOF.
C6_LabelIffAboveThreshold ==
    /\ predictor.threshold = THRESHOLD
    /\ \A r \in Reqs : \A k \in 1..Len(results[r]) :
          LET e == results[r][k] IN
          e.error = None =>
              /\ e.result_label \in {"BONAFIDE", "SPOOF"}
              /\ e.result_label = "BONAFIDE" <=> e.score > THRESHOLD
              /\ e.is_bonafide <=> e.score > THRESHOLD

C6_Witness ==
    \E r \in Reqs : \E k \in 1..Len(results[r]) :
        /\ results[r][k].error = None
        /\ results[r][k].score = THRESHOLD
        /\ results[r][k].result_label = "SPOOF"
        /\ ~results[r][k].is_bonafide

\* C7: a removal that fails during cleanup changes nothing else: the step
\* leaves the entries as they are, no exception leaves the handler, and the
\* loop goes on with the next file, or returns after the last one.
C7_CleanupFailureIgnored ==
    [][\A r \in Reqs :
          (pc[r] = "finally" /\ pc'[r] # "finally" /\ rmFailed'[r][idx[r]]) =>
              /\ results'[r] = results[r]
              /\ exc'[r] = None
              /\ pc'[r] = IF idx[r] < Len(files[r]) THEN "start" ELSE "return"]_vars

C7_Witness ==
    \E r \in Reqs :
        /\ pc[r] = "done"
        /\ Len(files[r]) = 2
        /\ rmFailed[r][1]
        /\ failedAt[r][1] = "none"
        /\ Len(results[r]) = 2

\* C8: the stages of an upload run in pipeline order, each at most once (so
\* predict is entered at most once); after the stage that failed only the
\* recording of the entry and the cleanup follow, and the entry has the error.
C8_StagesInOrderNoRetry ==
    \A r \in Reqs : \A k \in 1..Len(hist[r]) :
        LET h == hist[r][k] IN
        /\ \A j \in 2..Len(h) : Rank(h[j - 1]) < Rank(h[j])
        /\ \A j \in 2..Len(h) :
              (\E i \in 1..(j - 1) : h[i] = failedAt[r][k]) =>
                  h[j] \in {"append", "except", "cleanup"}
        /\ (failedAt[r][k] # "none" /\ k <= Len(results[r])) =>
              results[r][k].error # None

C8_Witness ==
    \E r \in Reqs :
        /\ pc[r] = "done"
        /\ Len(files[r]) = 2
        /\ failedAt[r][1] = "from_file"
        /\ hist[r][1] = <<"tempfile", "read", "write", "from_file", "except", "cleanup">>
        /\ failedAt[r][2] = "pad"
        /\ Last(hist[r][2]) = "cleanup"

\* C9: the files of a batch are processed one after the other: when a file is
\* started, every file before it has its entry and its cleanup has run, so at
\* most one file of a batch is between its temporary file and its cleanup.
C9_FilesSequential ==
    \A r \in Reqs :
        /\ \A k \in 1..Len(hist[r]) :
              k < Len(hist[r]) => (~InFlight(r, k) /\ Len(results[r]) >= k)
        /\ Cardinality({k \in 1..Len(hist[r]) : InFlight(r, k)}) <= 1

C9_Witness ==
    \E r \in Reqs :
        /\ Len(hist[r]) = 2
        /\ pc[r] = "forward"
        /\ InFlight(r, 2)
        /\ ~InFlight(r, 1)

\* C10: with several requests in flight on the one event loop, at most one is
\* inside predictor.predict, and at most one is anywhere between the write of
\* its temporary file and the cleanup: the others wait at the read, have not
\* been called yet, or have returned.
C10_OnePredictAtATime ==
    /\ Cardinality({r \in Reqs : pc[r] = "forward"}) <= 1
    /\ \A r \in Reqs :
          r # loop => (pc[r] \in {"new", "await_read"} \/ Finished(pc[r]))

C10_Witness ==
    \E r1 \in Reqs, r2 \in Reqs :
        /\ r1 # r2
        /\ pc[r1] = "forward"
        /\ pc[r2] = "await_read"

----------------------------------------------------------------------------
\* C4: for a non-empty waveform W and a target N >= 1, pad(W, N) has length
\* exactly N and sample i (0-based) is W[i mod len(W)]; so it is the first N
\* samples of W when len(W) >= N, and starts with a copy of W otherwise.
C4_PadIsPeriodicExtension ==
    (pad_out # NotCalled /\ Len(x_in) > 0) =>
        /\ pad_out.raised = None
        /\ Len(pad_out.value) = max_len_in
        /\ \A i \in 0..(max_len_in - 1) :
               pad_out.value[i + 1] = x_in[(i % Len(x_in)) + 1]
        /\ Len(x_in) < max_len_in =>
              /\ SubSeq(pad_out.value, 1, Len(x_in)) = x_in
              /\ Len(tile(x_in, num_repeats(max_len_in, Len(x_in)))) >= max_len_in
        /\ Len(x_in) >= max_len_in => pad_out.value = SubSeq(x_in, 1, max_len_in)

C4_Witness ==
    /\ pad_out # NotCalled
    /\ Len(x_in) = 3 /\ max_len_in = 4
    /\ x_in[1] # x_in[2]

\* C5: framing a zero-length waveform with a positive target reports a typed
\* error through a guard: the division by len(waveform) = 0 is never performed,
\* and no sequence is returned.
C5_EmptyWaveformGuarded ==
    (pad_out # NotCalled /\ Len(x_in) = 0 /\ max_len_in >= 1) =>
        /\ pad_out.raised # None
        /\ pad_out.raised # "ZeroDivisionError"

====
